---- MODULE Spec2Model ----
(***************************************************************************)
(* A model of the OME-zarr / precomputed conversion scripts:               *)
(*   - create_root_group, write_nii_file_list_to_ome_zarr and its worker,  *)
(*     write_summed_nii_files_to_group, write_array_to_group               *)
(*     (src/src/neuroglancer_interface/utils/data_utils.py),               *)
(*   - write_summed_object, its worker and main()                          *)
(*     (src/convert_cell_types_to_ome_zarr.py),                            *)
(*   - process_image and _process_image (src/format_ish.py).               *)
(* Worker processes are OS processes: every access of a worker to the      *)
(* on-disk store is one atomic step, and steps of different workers        *)
(* interleave freely.  The zarr store has no synchronizer, so              *)
(* Group.create_group and create_dataset are "check that the key is        *)
(* absent, then write the key": two steps.                                 *)
(***************************************************************************)
EXTENDS Integers, Sequences, FiniteSets, TLC

\* ------------------------------------------------------------------ bounds
\* the longest list of input files (fpath_list) / images
MaxFiles == 3
\* the largest --n_processors
MaxProc == 4

\* ------------------------------------------------------------- input sets
\* cluster names that a .nii.gz file name can resolve to (main(), l.148-155)
ClusterNames == {"A", "B"}
\* (shape id, voxel spacing id) of the array in a file
Geoms == {<<1, 1>>, <<2, 1>>, <<1, 2>>}
\* the names of the sub-groups main() writes, in the order it writes them
Phases == <<"clusters", "subclasses", "classes">>
\* the pool call of format_ish.process_image, as a phase of its own
AllPhases == {"clusters", "subclasses", "classes", "images"}
\* format_ish.make_info_file l.23: downscale_list
DownscaleList == <<1, 2, 4, 8>>
\* format_ish.make_info_file l.79: chunk_sizes [[512, 512, 1]]
ChunkSizeXY == 512
\* the image configs process_image can be given
ImageConfigs ==
    { [resolution |-> 1, width |-> 4, height |-> 2],
      [resolution |-> 1, width |-> 3, height |-> 2],
      [resolution |-> 2, width |-> 4, height |-> 4] }
\* names of aggregation targets, in sorted (list.sort()) order
TargetOrder == <<"c1", "c2", "s1", "s2", "s3">>
\* what get_class_lookup can return (subclass_to_clusters, class_to_clusters):
\* cluster "C" is listed by the annotation but never has a file
ClassLookups ==
    { [subclasses |-> [t \in {"s1", "s2"} |->
                         IF t = "s1" THEN <<"A", "B">> ELSE <<"C">>],
       classes |-> [t \in {"c1"} |-> <<"A", "B", "C">>]],
      [subclasses |-> [t \in {"s1", "s2"} |->
                         IF t = "s1" THEN <<"A", "C">> ELSE <<"C", "B">>],
       classes |-> [t \in {"c1", "c2"} |->
                         IF t = "c1" THEN <<"B", "A">> ELSE <<"A">>]],
      [subclasses |-> [t \in {"s1", "s2", "s3"} |->
                         IF t = "s1" THEN <<"B", "A">>
                         ELSE IF t = "s2" THEN <<"A">> ELSE <<"B">>],
       classes |-> [t \in {"c1", "c2"} |->
                         IF t = "c1" THEN <<"C">> ELSE <<"B">>]] }

\* ---------------------------------------------------------------- helpers
Min(a, b) == IF a < b THEN a ELSE b
Max(a, b) == IF a > b THEN a ELSE b
Range(s) == {s[i] : i \in DOMAIN s}
EmptyFn == [x \in {} |-> 0]
Put(f, k, v) == [x \in (DOMAIN f) \cup {k} |-> IF x = k THEN v ELSE f[x]]
RECURSIVE Pow2(_)
Pow2(n) == IF n = 0 THEN 1 ELSE 2 * Pow2(n - 1)
RECURSIVE SeqSum(_)
SeqSum(s) == IF s = <<>> THEN 0 ELSE Head(s) + SeqSum(Tail(s))
\* the indices 1..n of a list, as a sequence
\* the decimal digits of n, as str(n) gives them
RECURSIVE Digits(_)
Digits(n) == IF n < 10 THEN <<n>> ELSE Digits(n \div 10) \o <<n % 10>>
\* the characters "-" and "_" of a file name, next to the digits 0..9
Dash == 10
Underscore == 11
Indices(n) == [i \in 1..n |-> i]
PhaseIdx(p) == CHOOSE i \in DOMAIN Phases : Phases[i] = p

VARIABLES
    cluster_name_list,  \* main(): cluster name of fpath_list[i], for each file i
    cluster_geom,       \* geometry of the file cluster_to_path points to
    image_config_list,  \* format_ish: the image configs of --config_path
    info_data,          \* format_ish: the "scales" list make_info_file returned
    n_processors,       \* --n_processors
    clobber,            \* --clobber
    out_dir0,           \* the output directory as the run found it
    arg,                \* the arguments of a function called on its own
    ret,                \* and what it returned
    out_dir,            \* the output directory: [exists, children]
    mainpc,             \* where main() is: the phase it is in, "done", "raised"
    poolpc,             \* where the running pool call is
    class_lookup,       \* get_class_lookup(): the two aggregation maps
    items,              \* per phase: the list of items handed to the pool call
    buckets,            \* file_lists / group_lists / sub_lists of the call
    n_workers,          \* n_workers of the running call
    next_i,             \* loop index of the launcher (start loop, join loop)
    process_list,       \* process_list of the running call: ids into procs
    procs,              \* every process started so far, in start order
    calls               \* per phase, per item: how often the worker began it

vars == <<cluster_name_list, cluster_geom, image_config_list, info_data,
          n_processors, clobber, out_dir0, arg, ret, out_dir,
          mainpc, poolpc, class_lookup, items, buckets, n_workers, next_i,
          process_list, procs, calls>>

inputs == <<cluster_name_list, cluster_geom, image_config_list, n_processors,
            clobber, class_lookup, out_dir0, arg, ret>>
poolvars == <<info_data, items, buckets, n_workers, next_i, process_list>>

\* ------------------------------------------------------------- the store
\* an array: its element type and its voxels
NoArray == [dtype |-> "none", data |-> <<>>]
\* a group node that holds no array yet, and one that holds array `a`
EmptyNode == [written |-> FALSE, arr |-> NoArray]
ArrayNode(a) == [written |-> TRUE, arr |-> a]
\* the children of group `prefix` of the root
Children(prefix) == out_dir.children[prefix]
HasChild(prefix, name) == name \in DOMAIN Children(prefix)

\* mutant: the directory is cleaned out before clobber is looked at
create_root_groupCleansFirst(dir, clob) ==
    IF dir.exists /\ ~clob
    THEN [raised |-> TRUE, dir |-> [exists |-> FALSE, children |-> EmptyFn]]
    ELSE [raised |-> FALSE, dir |-> [exists |-> TRUE, children |-> EmptyFn]]

\* create_root_group: [raised, dir] for the directory state `dir`
create_root_group(dir, clob) ==
    IF dir.exists /\ ~clob
    THEN [raised |-> TRUE, dir |-> dir]
    ELSE [raised |-> FALSE, dir |-> [exists |-> TRUE, children |-> EmptyFn]]

\* the voxel value of file i: a distinct bit per file, so that a sum names
\* the files it was taken over
FileValue(i) == Pow2(i - 1)
\* what get_nifti_obj(fpath_list[i]).get_channel() gives
FileRec(i) ==
    [geom |-> cluster_geom[cluster_name_list[i]], dtype |-> "uint16",
     data |-> <<FileValue(i)>>]

\* the number of values of an unsigned integer element type
Modulus(dtype) == IF dtype = "uint8" THEN Pow2(8) ELSE Pow2(16)

\* write_summed_nii_files_to_group l.386: main_array += this_array.  The
\* in-place add keeps main_array's element type: each sum is cut to its width
AddInPlace(main, this) ==
    [main EXCEPT !.data = [i \in DOMAIN @ |->
                              (@[i] + this.data[i]) % Modulus(main.dtype)]]

\* write_summed_nii_files_to_group l.350-386, from file k on.  The messages
\* of l.372 and l.379 read main_path, a name that is never bound (l.368
\* binds main_pth): what is raised is a NameError
RECURSIVE SumLoop(_, _, _)
SumLoop(files, k, main_array) ==
    IF k > Len(files) THEN [error |-> "none", arr |-> main_array]
    ELSE IF files[k].geom[1] # files[1].geom[1]
    THEN [error |-> "NameError", arr |-> NoArray]
    ELSE IF files[k].geom[2] # files[1].geom[2]
    THEN [error |-> "NameError", arr |-> NoArray]
    ELSE SumLoop(files, k + 1, AddInPlace(main_array, files[k]))

\* write_summed_nii_files_to_group l.350-397: the array handed to
\* write_array_to_group, or the exception.  With no file x_scale is unbound
write_summed_nii_files_to_group(files) ==
    IF files = <<>>
    THEN [error |-> "UnboundLocalError", arr |-> NoArray]
    ELSE SumLoop(files, 2, [dtype |-> files[1].dtype, data |-> files[1].data])

\* main(), l.146-155: the last file of a cluster name wins
cluster_to_path ==
    [c \in Range(cluster_name_list) |->
        CHOOSE i \in DOMAIN cluster_name_list :
            /\ cluster_name_list[i] = c
            /\ \A j \in DOMAIN cluster_name_list :
                   cluster_name_list[j] = c => j <= i]

\* main() l.166-178: the obj_to_clusters argument of each write_summed_object
ObjToClusters(phase) ==
    IF phase = "subclasses" THEN class_lookup.subclasses ELSE class_lookup.classes

\* l.74-75 and l.100-101: the files of the clusters of `key` that have one
FilePathList(o2c, key) ==
    LET av == SelectSeq(o2c[key], LAMBDA c : c \in DOMAIN cluster_to_path)
    IN  [k \in DOMAIN av |-> cluster_to_path[av[k]]]

\* mutant: every key of the map, sorted, also those without a file
_get_all_group_list(o2c) ==
    SelectSeq(TargetOrder, LAMBDA t : t \in DOMAIN o2c)

\* _get_valid_group_list: the sorted keys with at least one file
_get_valid_group_list(o2c) ==
    SelectSeq(TargetOrder,
              LAMBDA t : t \in DOMAIN o2c /\ Len(FilePathList(o2c, t)) > 0)

\* ------------------------------------------------------------ partitioning
\* write_summed_object l.39-44: contiguous slices [i0:i0+n_per_processor]
Chunks(n, per) ==
    [k \in 1..((n + per - 1) \div per) |->
        [j \in 1..(Min(k * per, n) - (k - 1) * per) |-> (k - 1) * per + j]]

\* mutant: the W buckets are one shared list ([[]] * n_workers), so every
\* bucket holds every item
RoundRobinAliased(n, W) == [jj \in 1..W |-> Indices(n)]

\* static round robin: bucket jj (1-based) holds the items ii with
\* (ii-1) % W = jj-1, in list order
RoundRobin(n, W) ==
    [jj \in 1..W |-> SelectSeq(Indices(n), LAMBDA ii : (ii - 1) % W = jj - 1)]

\* a freshly started worker process over `bucket`
FirstPc(kind) == IF kind = "image" THEN "dircheck" ELSE "check"
NewProc(phase, kind, bucket, inproc) ==
    [phase |-> phase, kind |-> kind, bucket |-> bucket, pos |-> 1, sidx |-> 1,
     err |-> "none",
     pc |-> IF bucket = <<>> THEN "end" ELSE FirstPc(kind),
     status |-> IF bucket = <<>> THEN "exited" ELSE "running",
     inproc |-> inproc]

Terminated(w) == procs[w].status # "running"
ZeroCalls(n) == [i \in 1..n |-> 0]

\* ------------------------------------------- write_nii_file_list_to_ome_zarr
\* l.119-173: create the root, the prefix group, and the buckets
NiiCall ==
    /\ mainpc = "clusters" /\ poolpc = "idle"
    /\ LET r == create_root_group(out_dir, clobber)
           n == Len(cluster_name_list)
           W == Min(Max(1, n_processors - 1), n)
       IN  IF r.raised
           THEN /\ mainpc' = "raised"
                /\ UNCHANGED <<out_dir, poolpc, poolvars, procs, calls>>
           ELSE /\ out_dir' = [r.dir EXCEPT !.children =
                                  Put(r.dir.children, "clusters", EmptyFn)]
                /\ items' = [items EXCEPT !["clusters"] = cluster_name_list]
                /\ calls' = [calls EXCEPT !["clusters"] = ZeroCalls(n)]
                /\ process_list' = <<>>
                /\ next_i' = 1
                /\ IF n = 1
                   THEN /\ procs' = Append(procs,
                                NewProc("clusters", "nii", <<1>>, TRUE))
                        /\ poolpc' = "inproc"
                        /\ UNCHANGED <<buckets, n_workers>>
                   ELSE /\ n_workers' = W
                        /\ buckets' = RoundRobin(n, W)
                        /\ poolpc' = IF W = 0 THEN "join" ELSE "start"
                        /\ procs' = procs
                /\ UNCHANGED <<mainpc, info_data>>
    /\ UNCHANGED inputs

\* l.175-189: p = Process(...); p.start(); process_list.append(p)
StartNext(phase, kind) ==
    /\ poolpc = "start"
    /\ next_i <= n_workers
    /\ procs' = Append(procs, NewProc(phase, kind, buckets[next_i], FALSE))
    /\ process_list' = Append(process_list, Len(procs) + 1)
    /\ IF next_i = n_workers
       THEN poolpc' = "join" /\ next_i' = 1
       ELSE poolpc' = "start" /\ next_i' = next_i + 1

NiiStart ==
    /\ mainpc = "clusters"
    /\ StartNext("clusters", "nii")
    /\ UNCHANGED <<inputs, out_dir, mainpc, info_data, items, buckets, n_workers,
                   calls>>

\* mutant: a join that does not wait for the process
JoinNextNoWait ==
    /\ poolpc = "join"
    /\ next_i <= Len(process_list)
    /\ next_i' = next_i + 1

\* for p in process_list: p.join()  -- one join: blocks until p has terminated
JoinNext ==
    /\ poolpc = "join"
    /\ next_i <= Len(process_list)
    /\ Terminated(process_list[next_i])
    /\ next_i' = next_i + 1

NiiJoin ==
    /\ mainpc = "clusters"
    /\ JoinNext
    /\ UNCHANGED <<inputs, out_dir, mainpc, poolpc, info_data, items, buckets,
                   n_workers, process_list, procs, calls>>

\* the join loop is over: the pool call returns
JoinsDone == poolpc = "join" /\ next_i > Len(process_list)

\* mutant: the call looks at the exit codes and raises if a worker failed
NiiReturnChecksExit ==
    /\ mainpc = "clusters"
    /\ JoinsDone
    /\ mainpc' = IF \E k \in DOMAIN process_list :
                        procs[process_list[k]].status = "crashed"
                 THEN "raised" ELSE "subclasses"
    /\ poolpc' = "idle"
    /\ UNCHANGED <<inputs, out_dir, poolvars, procs, calls>>

\* l.194-198 and main() l.157-166: return root_group; main goes on
NiiReturn ==
    /\ mainpc = "clusters"
    /\ JoinsDone
    /\ mainpc' = "subclasses"
    /\ poolpc' = "idle"
    /\ UNCHANGED <<inputs, out_dir, poolvars, procs, calls>>

\* l.139-151: the single file is written in the calling process; an
\* exception of the worker function is an exception of the call
NiiInProcess ==
    /\ mainpc = "clusters" /\ poolpc = "inproc"
    /\ Terminated(Len(procs))
    /\ IF procs[Len(procs)].status = "crashed"
       THEN mainpc' = "raised" /\ poolpc' = "inproc"
       ELSE mainpc' = "subclasses" /\ poolpc' = "idle"
    /\ UNCHANGED <<inputs, out_dir, poolvars, procs, calls>>

\* ------------------------------------------------------- write_summed_object
NextPhase(phase) == IF phase = "subclasses" THEN "classes" ELSE "done"

\* l.24-40: the valid targets, the prefix group, the chunks.  n_processors
\* is the function's parameter: main() leaves it at its default of 4, other
\* callers may pass any value
SummedCall ==
    /\ mainpc \in {"subclasses", "classes"} /\ poolpc = "idle"
    /\ LET full_group_list == _get_valid_group_list(ObjToClusters(mainpc))
           n == Len(full_group_list)
           W == Max(1, n_processors - 1)
           n_per_processor == Max(1, n \div W)
       IN  IF n = 0
           THEN /\ mainpc' = NextPhase(mainpc)
                /\ UNCHANGED <<out_dir, poolpc, poolvars, calls>>
           ELSE /\ out_dir' = [out_dir EXCEPT !.children =
                                  Put(@, mainpc, EmptyFn)]
                /\ items' = [items EXCEPT ![mainpc] = full_group_list]
                /\ calls' = [calls EXCEPT ![mainpc] = ZeroCalls(n)]
                /\ n_workers' = W
                /\ buckets' = Chunks(n, n_per_processor)
                /\ process_list' = <<>>
                /\ next_i' = 1
                /\ poolpc' = "start"
                /\ UNCHANGED <<mainpc, info_data>>
    /\ UNCHANGED <<inputs, procs>>

\* l.44-53: start the process of the next chunk
SummedStart ==
    /\ mainpc \in {"subclasses", "classes"} /\ poolpc = "start"
    /\ procs' = Append(procs, NewProc(mainpc, "summed", buckets[next_i], FALSE))
    /\ process_list' = Append(process_list, Len(procs) + 1)
    /\ poolpc' = "winnow"
    /\ UNCHANGED <<inputs, out_dir, mainpc, info_data, items, buckets, n_workers,
                   next_i, calls>>

\* _winnow_process_list: the processes of the list that have not terminated
_winnow_process_list(pl) == SelectSeq(pl, LAMBDA w : ~Terminated(w))

\* l.54-55: while len(process_list) >= n_workers: reap.  A pass that reaps
\* nothing leaves the state as it is
SummedWinnow ==
    /\ mainpc \in {"subclasses", "classes"} /\ poolpc = "winnow"
    /\ Len(process_list) >= n_workers
    /\ process_list' = _winnow_process_list(process_list)
    /\ process_list' # process_list
    /\ UNCHANGED <<inputs, out_dir, mainpc, poolpc, info_data, items, buckets,
                   n_workers, next_i, procs, calls>>

\* mutant: the launcher goes on to the next chunk without waiting
SummedLoopNoWait ==
    /\ mainpc \in {"subclasses", "classes"} /\ poolpc = "winnow"
    /\ IF next_i = Len(buckets)
       THEN poolpc' = "join" /\ next_i' = 1
       ELSE poolpc' = "start" /\ next_i' = next_i + 1
    /\ UNCHANGED <<inputs, out_dir, mainpc, info_data, items, buckets, n_workers,
                   process_list, procs, calls>>

\* l.42, l.54: the while loop ends; next chunk, or on to the joins
SummedLoop ==
    /\ mainpc \in {"subclasses", "classes"} /\ poolpc = "winnow"
    /\ Len(process_list) < n_workers
    /\ IF next_i = Len(buckets)
       THEN poolpc' = "join" /\ next_i' = 1
       ELSE poolpc' = "start" /\ next_i' = next_i + 1
    /\ UNCHANGED <<inputs, out_dir, mainpc, info_data, items, buckets, n_workers,
                   process_list, procs, calls>>

\* l.57-58
SummedJoin ==
    /\ mainpc \in {"subclasses", "classes"}
    /\ JoinNext
    /\ UNCHANGED <<inputs, out_dir, mainpc, poolpc, info_data, items, buckets,
                   n_workers, process_list, procs, calls>>

\* l.60-62 and main() l.166-178
SummedReturn ==
    /\ mainpc \in {"subclasses", "classes"}
    /\ JoinsDone
    /\ mainpc' = NextPhase(mainpc)
    /\ poolpc' = "idle"
    /\ UNCHANGED <<inputs, out_dir, poolvars, procs, calls>>

\* ------------------------------------------------------------- format_ish
\* main() l.301-307: the output directory
main_output_dir(dir, clob) ==
    IF dir.exists /\ ~clob
    THEN [raised |-> TRUE, dir |-> dir]
    ELSE [raised |-> FALSE, dir |-> [exists |-> TRUE, children |-> EmptyFn]]

SeqMax(s) == CHOOSE m \in Range(s) : \A x \in Range(s) : x <= m
\* get_volume_shape_from_config
get_volume_shape_from_config(cfgs) ==
    <<SeqMax([i \in DOMAIN cfgs |-> cfgs[i].width]),
      SeqMax([i \in DOMAIN cfgs |-> cfgs[i].height]),
      Len(cfgs)>>

\* make_info_file l.72-74: the key of a scale, f"{r[0]}_{r[1]}_{r[2]}", as
\* its characters
ScaleKey(r) ==
    Digits(r[1]) \o <<Underscore>> \o Digits(r[2]) \o <<Underscore>> \o
    Digits(r[3])

\* mutant: every factor of downscale_list is used, dividing or not
make_info_fileAllFactors(resolution_xyz, volume_size_xyz) ==
    [k \in DOMAIN DownscaleList |->
        LET this_resolution == <<resolution_xyz[1] * DownscaleList[k],
                                 resolution_xyz[2] * DownscaleList[k],
                                 resolution_xyz[3]>>
        IN  [key |-> ScaleKey(this_resolution),
             resolution |-> this_resolution,
             size |-> <<volume_size_xyz[1] \div DownscaleList[k],
                        volume_size_xyz[2] \div DownscaleList[k],
                        volume_size_xyz[3]>>,
             chunk_sizes |-> <<ChunkSizeXY, ChunkSizeXY, 1>>]]

\* make_info_file l.44-82: the "scales" list
make_info_file(resolution_xyz, volume_size_xyz) ==
    LET actual_downscale ==
            SelectSeq(DownscaleList,
                      LAMBDA v : /\ volume_size_xyz[1] % v = 0
                                 /\ volume_size_xyz[2] % v = 0)
        scale(downscale) ==
            LET this_resolution == <<resolution_xyz[1] * downscale,
                                     resolution_xyz[2] * downscale,
                                     resolution_xyz[3]>>
            IN  [key |-> ScaleKey(this_resolution),
                 resolution |-> this_resolution,
                 size |-> <<volume_size_xyz[1] \div downscale,
                            volume_size_xyz[2] \div downscale,
                            volume_size_xyz[3]>>,
                 chunk_sizes |-> <<ChunkSizeXY, ChunkSizeXY, 1>>]
    IN  [k \in DOMAIN actual_downscale |-> scale(actual_downscale[k])]

\* main() l.301-314 and process_image l.242-275: the output directory, the
\* resolution check, the info file and the sub_lists
ImageCall ==
    /\ mainpc = "images" /\ poolpc = "idle"
    /\ LET r == main_output_dir(out_dir, clobber)
           n == Len(image_config_list)
           baseline_resolution == image_config_list[1].resolution
           baseline_xyz == baseline_resolution * 1000
       IN  IF r.raised
           THEN /\ mainpc' = "raised"
                /\ UNCHANGED <<out_dir, poolpc, poolvars, calls>>
           ELSE IF \E i \in 1..n :
                      image_config_list[i].resolution # baseline_resolution
           THEN /\ mainpc' = "raised"
                /\ out_dir' = r.dir
                /\ UNCHANGED <<poolpc, poolvars, calls>>
           ELSE /\ out_dir' = r.dir
                /\ info_data' = make_info_file(
                        <<baseline_xyz, baseline_xyz, baseline_xyz>>,
                        get_volume_shape_from_config(image_config_list))
                /\ items' = [items EXCEPT !["images"] = image_config_list]
                /\ calls' = [calls EXCEPT !["images"] = ZeroCalls(n)]
                /\ n_workers' = n_processors
                /\ buckets' = RoundRobin(n, n_processors)
                /\ process_list' = <<>>
                /\ next_i' = 1
                /\ poolpc' = "start"
                /\ mainpc' = mainpc
    /\ UNCHANGED <<inputs, procs>>

\* process_image l.277-286
ImageStart ==
    /\ mainpc = "images"
    /\ StartNext("images", "image")
    /\ UNCHANGED <<inputs, out_dir, mainpc, info_data, items, buckets, n_workers,
                   calls>>

\* process_image l.288-289
ImageJoin ==
    /\ mainpc = "images"
    /\ JoinNext
    /\ UNCHANGED <<inputs, out_dir, mainpc, poolpc, info_data, items, buckets,
                   n_workers, process_list, procs, calls>>

\* process_image returns; main() ends
ImageReturn ==
    /\ mainpc = "images"
    /\ JoinsDone
    /\ mainpc' = "done"
    /\ poolpc' = "idle"
    /\ UNCHANGED <<inputs, out_dir, poolvars, procs, calls>>

\* ---------------------------------------------------------------- workers
ItemOf(w) == procs[w].bucket[procs[w].pos]
NameOf(w) == items[procs[w].phase][ItemOf(w)]

\* the worker leaves the item it is at: next item, or the process exits
Advance(p) ==
    IF p.pos = Len(p.bucket)
    THEN [p EXCEPT !.pc = "end", !.status = "exited"]
    ELSE [p EXCEPT !.pc = FirstPc(p.kind), !.pos = p.pos + 1, !.sidx = 1]
\* an uncaught exception ends the process
Crash(p, e) == [p EXCEPT !.status = "crashed", !.err = e]

\* the sources of the item worker w is at: the file itself, or the files of
\* the target's clusters that have a file (l.74-75)
SourcesOf(w) ==
    IF procs[w].kind = "nii"
    THEN <<ItemOf(w)>>
    ELSE FilePathList(ObjToClusters(procs[w].phase), NameOf(w))

\* the worker begins an item.  _write_summed_object_worker l.77 passes over
\* a key without files; otherwise Group.create_group, first half: raise if
\* the child exists
CreateGroupCheck(w) ==
    /\ procs[w].status = "running" /\ procs[w].pc = "check"
    /\ calls' = [calls EXCEPT ![procs[w].phase][ItemOf(w)] = @ + 1]
    /\ procs' = [procs EXCEPT ![w] =
                    IF SourcesOf(w) = <<>> THEN Advance(@)
                    ELSE IF HasChild(procs[w].phase, NameOf(w))
                    THEN Crash(@, "ContainsGroupError")
                    ELSE [@ EXCEPT !.pc = "create"]]
    /\ UNCHANGED <<inputs, out_dir, mainpc, poolpc, poolvars>>

\* Group.create_group, second half: write the group's metadata key.  Arrays
\* that another writer put under the same name in between stay where they are
CreateGroupWrite(w) ==
    /\ procs[w].status = "running" /\ procs[w].pc = "create"
    /\ LET ph == procs[w].phase
           nm == NameOf(w)
       IN  out_dir' = [out_dir EXCEPT !.children[ph] =
                          IF HasChild(ph, nm) THEN @ ELSE Put(@, nm, EmptyNode)]
    /\ procs' = [procs EXCEPT ![w].pc = "wcheck"]
    /\ UNCHANGED <<inputs, mainpc, poolpc, poolvars, calls>>

\* the array of the item worker w is at: the file's (write_nii_to_group
\* l.293-302), or the sum (write_summed_nii_files_to_group)
ItemArray(w) ==
    IF procs[w].kind = "nii"
    THEN [error |-> "none",
          arr |-> [dtype |-> FileRec(ItemOf(w)).dtype,
                   data |-> FileRec(ItemOf(w)).data]]
    ELSE write_summed_nii_files_to_group(
             [k \in DOMAIN SourcesOf(w) |-> FileRec(SourcesOf(w)[k])])

\* the sources are read (and summed); then write_array_to_group ->
\* write_image -> create_dataset, first half: the array key must be absent
WriteArrayCheck(w) ==
    /\ procs[w].status = "running" /\ procs[w].pc = "wcheck"
    /\ procs' = [procs EXCEPT ![w] =
                    IF ItemArray(w).error # "none"
                    THEN Crash(@, ItemArray(w).error)
                    ELSE IF Children(procs[w].phase)[NameOf(w)].written
                    THEN Crash(@, "ContainsArrayError")
                    ELSE [@ EXCEPT !.pc = "write"]]
    /\ UNCHANGED <<inputs, out_dir, mainpc, poolpc, poolvars, calls>>

\* create_dataset, second half: the array's metadata and chunks are written
WriteArrayData(w) ==
    /\ procs[w].status = "running" /\ procs[w].pc = "write"
    /\ out_dir' = [out_dir EXCEPT !.children[procs[w].phase][NameOf(w)] =
                      ArrayNode(ItemArray(w).arr)]
    /\ procs' = [procs EXCEPT ![w] = Advance(@)]
    /\ UNCHANGED <<inputs, mainpc, poolpc, poolvars, calls>>

\* one step of _write_nii_file_list_worker / _write_summed_object_worker
WorkerStep ==
    \E w \in DOMAIN procs :
        \/ CreateGroupCheck(w)
        \/ CreateGroupWrite(w)
        \/ WriteArrayCheck(w)
        \/ WriteArrayData(w)

\* ---------------------------------------------- format_ish._process_image
\* the scale worker w is at, and the z index of its image
ScaleOf(w) == info_data[procs[w].sidx]
ZzOf(w) == ItemOf(w) - 1

\* write_image_to_cloud l.146-147: if not this_dir.exists()
\* (the image is read when the worker comes to it, l.219-224)
DirCheck(w) ==
    /\ procs[w].status = "running" /\ procs[w].pc = "dircheck"
    /\ calls' = IF procs[w].sidx = 1
                THEN [calls EXCEPT ![procs[w].phase][ItemOf(w)] = @ + 1]
                ELSE calls
    /\ procs' = [procs EXCEPT ![w].pc =
                    IF ScaleOf(w).key \in DOMAIN out_dir.children
                    THEN "chunks" ELSE "mkdir"]
    /\ UNCHANGED <<inputs, out_dir, mainpc, poolpc, poolvars>>

\* l.148: this_dir.mkdir() raises FileExistsError on an existing directory
Mkdir(w) ==
    /\ procs[w].status = "running" /\ procs[w].pc = "mkdir"
    /\ IF ScaleOf(w).key \in DOMAIN out_dir.children
       THEN /\ procs' = [procs EXCEPT ![w] = Crash(@, "FileExistsError")]
            /\ out_dir' = out_dir
       ELSE /\ procs' = [procs EXCEPT ![w].pc = "chunks"]
            /\ out_dir' = [out_dir EXCEPT !.children =
                              Put(@, ScaleOf(w).key, {})]
    /\ UNCHANGED <<inputs, mainpc, poolpc, poolvars, calls>>

\* mutant: the last chunk of a row or column is not cut at the edge
ChunkNamesUnclipped(size, chunk_size, zz_idx) ==
    { <<x0, x0 + chunk_size[1], y0, y0 + chunk_size[2], zz_idx, zz_idx + 1>> :
        x0 \in {x \in 0..(size[1] - 1) : x % chunk_size[1] = 0},
        y0 \in {y \in 0..(size[2] - 1) : y % chunk_size[2] = 0} }

\* l.164-171: the names x0-x1_y0-y1_z-(z+1) of the chunk files of a slice
ChunkNames(size, chunk_size, zz_idx) ==
    { <<x0, Min(size[1], x0 + chunk_size[1]),
        y0, Min(size[2], y0 + chunk_size[2]), zz_idx, zz_idx + 1>> :
        x0 \in {x \in 0..(size[1] - 1) : x % chunk_size[1] = 0},
        y0 \in {y \in 0..(size[2] - 1) : y % chunk_size[2] = 0} }

\* l.164-171: the chunk files of the slice; then the next scale (l.226), the
\* next image (l.211), or the end of the process
WriteChunks(w) ==
    /\ procs[w].status = "running" /\ procs[w].pc = "chunks"
    /\ out_dir' = [out_dir EXCEPT !.children[ScaleOf(w).key] =
                      @ \cup ChunkNames(ScaleOf(w).size, ScaleOf(w).chunk_sizes,
                                        ZzOf(w))]
    /\ procs' = [procs EXCEPT ![w] =
                    IF @.sidx < Len(info_data)
                    THEN [@ EXCEPT !.sidx = @ + 1, !.pc = "dircheck"]
                    ELSE Advance(@)]
    /\ UNCHANGED <<inputs, mainpc, poolpc, poolvars, calls>>

\* one step of _process_image
ImageWorkerStep ==
    \E w \in DOMAIN procs :
        \/ DirCheck(w)
        \/ Mkdir(w)
        \/ WriteChunks(w)

\* ------------------------------------------------------------------- main
\* what every run starts from: a fresh output directory, no pool call yet
InitCommon ==
    /\ clobber = FALSE
    /\ out_dir = [exists |-> FALSE, children |-> EmptyFn]
    /\ out_dir0 = out_dir
    /\ arg = [kind |-> "none"]
    /\ ret = [kind |-> "none"]
    /\ poolpc = "idle"
    /\ info_data = <<>>
    /\ items = [p \in AllPhases |-> <<>>]
    /\ buckets = <<>>
    /\ n_workers = 0
    /\ next_i = 1
    /\ process_list = <<>>
    /\ procs = <<>>
    /\ calls = [p \in AllPhases |-> <<>>]

NoCellTypes ==
    /\ cluster_name_list = <<>>
    /\ cluster_geom = [c \in ClusterNames |-> <<1, 1>>]
    /\ class_lookup = [subclasses |-> EmptyFn, classes |-> EmptyFn]

\* convert_cell_types_to_ome_zarr.main(): the files found, their geometry,
\* the annotation.  Only equality of geometries is read, so cluster "A"
\* keeps geometry <<1, 1>>
InitCellTypes ==
    /\ cluster_name_list \in UNION {[1..n -> ClusterNames] : n \in 0..MaxFiles}
    /\ cluster_geom \in {g \in [ClusterNames -> Geoms] : g["A"] = <<1, 1>>}
    /\ class_lookup \in ClassLookups
    /\ image_config_list = <<>>
    /\ n_processors \in 1..MaxProc
    /\ mainpc = "clusters"
    /\ InitCommon

\* format_ish.main(): the image configs
InitImages ==
    /\ NoCellTypes
    /\ image_config_list \in UNION {[1..n -> ImageConfigs] : n \in 1..MaxFiles}
    /\ n_processors \in 1..MaxProc
    /\ mainpc = "images"
    /\ InitCommon

Init == InitCellTypes \/ InitImages

Next ==
    \/ NiiCall
    \/ NiiStart
    \/ NiiJoin
    \/ NiiReturn
    \/ NiiInProcess
    \/ SummedCall
    \/ SummedStart
    \/ SummedWinnow
    \/ SummedLoop
    \/ SummedJoin
    \/ SummedReturn
    \/ WorkerStep
    \/ ImageCall
    \/ ImageStart
    \/ ImageJoin
    \/ ImageReturn
    \/ ImageWorkerStep

Spec == Init /\ [][Next]_vars

\* ------------------------------------------------- the output directory
\* the names a directory found on disk may hold, and the arrays under them
StaleNames == {"A", "B"}
StaleNodes == {EmptyNode, ArrayNode([dtype |-> "uint16", data |-> <<1>>])}
StaleGroups ==
    UNION {[T -> StaleNodes] : T \in SUBSET StaleNames}
StaleChildren ==
    UNION {[S -> StaleGroups] : S \in SUBSET {"clusters", "subclasses"}}
\* the output directory as a run may find it
FoundDirs ==
    {[exists |-> FALSE, children |-> EmptyFn]}
        \cup {[exists |-> TRUE, children |-> c] : c \in StaleChildren}

\* no pool call is in progress
PoolIdle ==
    /\ poolpc = "idle"
    /\ info_data = <<>>
    /\ items = [p \in AllPhases |-> <<>>]
    /\ buckets = <<>>
    /\ n_workers = 0
    /\ next_i = 1
    /\ process_list = <<>>
    /\ procs = <<>>
    /\ calls = [p \in AllPhases |-> <<>>]
    /\ image_config_list = <<>>
    /\ n_processors = 1
    /\ NoCellTypes

InitRoot ==
    /\ PoolIdle
    /\ out_dir0 \in FoundDirs
    /\ out_dir = out_dir0
    /\ clobber \in BOOLEAN
    /\ arg = [kind |-> "none"]
    /\ ret = [kind |-> "none"]
    /\ mainpc \in {"create_root_group", "format_ish"}

\* create_root_group(output_dir, clobber)
CreateRootGroupCall ==
    /\ mainpc = "create_root_group"
    /\ out_dir' = create_root_group(out_dir, clobber).dir
    /\ ret' = [kind |-> "root",
               raised |-> create_root_group(out_dir, clobber).raised]
    /\ mainpc' = "done"
    /\ UNCHANGED <<cluster_name_list, cluster_geom, image_config_list,
                   n_processors, clobber, class_lookup, out_dir0, arg,
                   poolpc, poolvars, procs, calls>>

\* format_ish.main() l.301-306
FormatIshMainCall ==
    /\ mainpc = "format_ish"
    /\ out_dir' = main_output_dir(out_dir, clobber).dir
    /\ ret' = [kind |-> "root",
               raised |-> main_output_dir(out_dir, clobber).raised]
    /\ mainpc' = "done"
    /\ UNCHANGED <<cluster_name_list, cluster_geom, image_config_list,
                   n_processors, clobber, class_lookup, out_dir0, arg,
                   poolpc, poolvars, procs, calls>>

NextRoot == CreateRootGroupCall \/ FormatIshMainCall

SpecRoot == InitRoot /\ [][NextRoot]_vars

\* ------------------------------------------------------------ the sum
MaxSources == 3
\* the arrays a source file may hold: two voxels, in its element type
SourceArrays ==
    {[dtype |-> "uint8", data |-> <<100, 1>>],
     [dtype |-> "uint8", data |-> <<200, 255>>],
     [dtype |-> "uint16", data |-> <<100, 1>>],
     [dtype |-> "uint16", data |-> <<65500, 300>>]}
SourceFiles ==
    {[geom |-> g, dtype |-> a.dtype, data |-> a.data] :
        g \in Geoms, a \in SourceArrays}

InitSum ==
    /\ PoolIdle
    /\ out_dir0 = [exists |-> FALSE, children |-> EmptyFn]
    /\ out_dir = out_dir0
    /\ clobber = FALSE
    /\ arg \in {[kind |-> "sum", files |-> f] :
                f \in UNION {[1..n -> SourceFiles] : n \in 1..MaxSources}}
    /\ ret = [kind |-> "none"]
    /\ mainpc = "sum"

\* write_summed_nii_files_to_group(file_path_list, group), up to the array
\* it hands to write_array_to_group
SumCall ==
    /\ mainpc = "sum"
    /\ ret' = [kind |-> "sum",
               error |-> write_summed_nii_files_to_group(arg.files).error,
               arr |-> write_summed_nii_files_to_group(arg.files).arr]
    /\ mainpc' = "done"
    /\ UNCHANGED <<cluster_name_list, cluster_geom, image_config_list,
                   n_processors, clobber, class_lookup, out_dir0, arg,
                   out_dir, poolpc, poolvars, procs, calls>>

NextSum == SumCall

SpecSum == InitSum /\ [][NextSum]_vars

\* ------------------------------------------------------- the chunk shape
MaxDim == 12
MaxCap == 3

\* mutant: the extent itself is capped, not a quarter of it
ChunkOfWholeExtent(extent, default_chunk) ==
    Max(1, Min(extent, default_chunk))

\* write_array_to_group l.493-495, one dimension
ChunkOf(extent, default_chunk) ==
    Max(1, Min(extent \div 4, default_chunk))

\* write_array_to_group l.493-497: (chunk_x, chunk_y, chunk_z)
Chunks3(shape, default_chunk) ==
    [d \in 1..3 |-> ChunkOf(shape[d], default_chunk)]

InitChunk ==
    /\ PoolIdle
    /\ out_dir0 = [exists |-> FALSE, children |-> EmptyFn]
    /\ out_dir = out_dir0
    /\ clobber = FALSE
    /\ arg \in {[kind |-> "chunks", shape |-> sh, default_chunk |-> c] :
                sh \in [1..3 -> 1..MaxDim], c \in 1..MaxCap}
    /\ ret = [kind |-> "none"]
    /\ mainpc = "chunks"

\* write_array_to_group(arr, ..., default_chunk), up to these_storage_opts
ChunkCall ==
    /\ mainpc = "chunks"
    /\ ret' = [kind |-> "chunks",
               chunks |-> Chunks3(arg.shape, arg.default_chunk)]
    /\ mainpc' = "done"
    /\ UNCHANGED <<cluster_name_list, cluster_geom, image_config_list,
                   n_processors, clobber, class_lookup, out_dir0, arg,
                   out_dir, poolpc, poolvars, procs, calls>>

NextChunk == ChunkCall

SpecChunk == InitChunk /\ [][NextChunk]_vars

\* ------------------------------------------------- write_array_to_group
MaxLevels == 2
\* the extents of an array, and the shapes of 2 and of 3 dimensions
ArrayExtents == {3, 8}
ArrayShapes == UNION {[1..n -> ArrayExtents] : n \in 2..3}
\* the voxel spacings a file may declare, in micrometres
ScaleValues == {-1, 0, 1, 3}
\* the shapes XYZScaler.create_empty_pyramid may plan for the further levels
PyramidShapes == {<<4, 4, 4>>, <<2, 4, 8>>, <<1, 1, 3>>}
PyramidPlans == UNION {[1..n -> PyramidShapes] : n \in 0..MaxLevels}

\* a quotient n / d, kept exact
Quot(n, d) == [num |-> n, den |-> d]

\* mutant: the further levels repeat the scale of level 0
LevelTransformUnscaled(scales, shape, nxny) ==
    [d \in 1..3 |-> Quot(scales[d], 1)]

\* write_array_to_group l.469-473: the transform of one further level
LevelTransform(scales, shape, nxny) ==
    [d \in 1..3 |-> Quot(scales[d] * shape[d], nxny[d])]

\* write_array_to_group l.455-480: coord_transform
CoordTransform(scales, shape, downscale, list_of_nx_ny) ==
    <<[d \in 1..3 |-> Quot(scales[d], 1)]>> \o
        (IF downscale > 1
         THEN [i \in DOMAIN list_of_nx_ny |->
                  LevelTransform(scales, shape, list_of_nx_ny[i])]
         ELSE <<>>)

\* write_array_to_group l.451-510.  Nothing looks at the number of
\* dimensions or at the sign of the scales: arr.shape[2] (l.472 or l.495)
\* raises IndexError on an array of 2 dimensions
write_array_to_group(a) ==
    IF Len(a.shape) < 3
    THEN [error |-> "IndexError", coord_transform |-> <<>>, chunks |-> <<>>]
    ELSE [error |-> "none",
          coord_transform |->
              CoordTransform(a.scales, a.shape, a.downscale, a.list_of_nx_ny),
          chunks |-> Chunks3(a.shape, a.default_chunk)]

InitArray ==
    /\ PoolIdle
    /\ out_dir0 = [exists |-> TRUE, children |-> EmptyFn]
    /\ out_dir = out_dir0
    /\ clobber = FALSE
    /\ arg \in {[kind |-> "array", shape |-> sh, scales |-> sc,
                 downscale |-> ds, list_of_nx_ny |-> pl, default_chunk |-> 1] :
                sh \in ArrayShapes, sc \in [1..3 -> ScaleValues],
                ds \in 1..2, pl \in PyramidPlans}
    /\ ret = [kind |-> "none"]
    /\ mainpc = "array"

\* write_nii_to_group(root_group, group_name = "A", ...) l.287-328: the
\* group is created, the file is read, the array is written
ArrayCall ==
    /\ mainpc = "array"
    /\ LET r == write_array_to_group(arg)
       IN  /\ ret' = [kind |-> "array", error |-> r.error,
                      coord_transform |-> r.coord_transform,
                      chunks |-> r.chunks]
           /\ out_dir' = [out_dir EXCEPT !.children =
                             Put(@, "A",
                                 IF r.error = "none"
                                 THEN ArrayNode([dtype |-> "uint16",
                                                 data |-> <<1>>])
                                 ELSE EmptyNode)]
    /\ mainpc' = "done"
    /\ UNCHANGED <<cluster_name_list, cluster_geom, image_config_list,
                   n_processors, clobber, class_lookup, out_dir0, arg,
                   poolpc, poolvars, procs, calls>>

NextArray == ArrayCall

SpecArray == InitArray /\ [][NextArray]_vars

\* ------------------------------------------------------- write_sub_group
\* what a manifest.csv may hold
ManifestContents == {"m1", "m2"}
\* a plain file of the store directory
ManifestFile(c) == [written |-> TRUE, arr |-> [dtype |-> "csv", data |-> <<c>>]]
\* <prefix>/manifest.csv, relative to the store root
ManifestPath(prefix) == prefix \o "/manifest.csv"
\* the store directory as write_sub_group may find it: an empty root, the
\* prefix group already there, or a manifest left at the destination
SubGroupDirs ==
    {[exists |-> TRUE, children |-> EmptyFn],
     [exists |-> TRUE, children |-> Put(EmptyFn, "clusters", EmptyFn)]}
        \cup {[exists |-> TRUE,
               children |-> Put(EmptyFn, ManifestPath("clusters"),
                                ManifestFile(c))] : c \in ManifestContents}

InitSubGroup ==
    /\ PoolIdle
    /\ out_dir0 \in SubGroupDirs \cup {[exists |-> FALSE, children |-> EmptyFn]}
    /\ out_dir = out_dir0
    /\ clobber \in BOOLEAN
    /\ arg \in {[kind |-> "sub_group", entry |-> e, is_dir |-> isd,
                 manifest |-> mf, names |-> nm, prefix |-> "clusters"] :
                e \in {"convert_cell_types_to_ome_zarr", "write_sub_group"},
                isd \in BOOLEAN,
                mf \in ManifestContents \cup {"absent"},
                nm \in UNION {[1..n -> ClusterNames] : n \in 0..MaxFiles}}
    /\ (arg.entry = "write_sub_group" => out_dir0.exists /\ ~clobber)
    /\ ret = [kind |-> "none"]
    /\ mainpc = "sub_group"

\* write_sub_group l.56-94 on store directory `dir`, the pool call having
\* written the groups `done`: [error, dir].  shutil has no function cp
\* (l.92): where the copy is reached an AttributeError is raised
write_sub_group(a, dir, done) ==
    IF ~a.is_dir THEN [error |-> "RuntimeError", dir |-> dir]
    ELSE IF a.manifest = "absent" THEN [error |-> "RuntimeError", dir |-> dir]
    ELSE IF a.prefix \in DOMAIN dir.children
    THEN [error |-> "ContainsGroupError", dir |-> dir]
    ELSE LET written ==
                 [dir EXCEPT !.children =
                     Put(@, a.prefix,
                         [t \in done |->
                             ArrayNode([dtype |-> "uint16", data |-> <<1>>])])]
         IN  IF ManifestPath(a.prefix) \in DOMAIN dir.children
             THEN [error |-> "RuntimeError", dir |-> written]
             ELSE [error |-> "AttributeError", dir |-> written]

\* write_sub_group, called on its own or by convert_cell_types_to_ome_zarr
\* (l.34-47), which makes the root and passes a keyword (metadata) that
\* write_sub_group does not take.  `done` are the groups the workers of the
\* pool call got to write
SubGroupCall ==
    /\ mainpc = "sub_group"
    /\ \E done \in SUBSET Range(arg.names) :
          LET root == create_root_group(out_dir, clobber)
              r == IF arg.entry = "write_sub_group"
                   THEN write_sub_group(arg, out_dir, done)
                   ELSE IF root.raised
                   THEN [error |-> "RuntimeError", dir |-> out_dir]
                   ELSE [error |-> "TypeError", dir |-> root.dir]
          IN  /\ ret' = [kind |-> "sub_group", error |-> r.error]
              /\ out_dir' = r.dir
    /\ mainpc' = "done"
    /\ UNCHANGED <<cluster_name_list, cluster_geom, image_config_list,
                   n_processors, clobber, class_lookup, out_dir0, arg,
                   poolpc, poolvars, procs, calls>>

NextSubGroup == SubGroupCall

SpecSubGroup == InitSubGroup /\ [][NextSubGroup]_vars

\* ------------------------------------------------- write_image_to_cloud
MaxWidth == 6
MaxChunk == 3
MaxZ == 11

\* l.168: f"{x0}-{x1}_{y0}-{y1}_{zz_idx}-{zz_idx+1}", as its characters
FileName(c) ==
    Digits(c[1]) \o <<Dash>> \o Digits(c[2]) \o <<Underscore>> \o
    Digits(c[3]) \o <<Dash>> \o Digits(c[4]) \o <<Underscore>> \o
    Digits(c[5]) \o <<Dash>> \o Digits(c[6])

InitTile ==
    /\ PoolIdle
    /\ out_dir0 = [exists |-> TRUE, children |-> EmptyFn]
    /\ out_dir = out_dir0
    /\ clobber = FALSE
    /\ arg \in {[kind |-> "tile", downscale_shape |-> <<w, h, 1>>,
                 chunk_size |-> <<dx, dy, 1>>, zz_idx |-> zz] :
                w \in 1..MaxWidth, h \in 1..MaxWidth,
                dx \in 1..MaxChunk, dy \in 1..MaxChunk,
                zz \in {0, 9, MaxZ}}
    /\ ret = [kind |-> "none"]
    /\ mainpc = "tile"

\* write_image_to_cloud(layer_dir, key, chunk_size, downscale_shape, data,
\* zz_idx) l.151-171: the files written
TileCall ==
    /\ mainpc = "tile"
    /\ ret' = [kind |-> "tile",
               chunks |-> ChunkNames(arg.downscale_shape, arg.chunk_size,
                                     arg.zz_idx)]
    /\ mainpc' = "done"
    /\ UNCHANGED <<cluster_name_list, cluster_geom, image_config_list,
                   n_processors, clobber, class_lookup, out_dir0, arg,
                   out_dir, poolpc, poolvars, procs, calls>>

NextTile == TileCall

SpecTile == InitTile /\ [][NextTile]_vars

\* --------------------------------------------------------- make_info_file
MaxVol == 16
\* the pixel sizes of a base resolution, in nanometres
ResolutionValues == {1, 25}

InitInfo ==
    /\ PoolIdle
    /\ out_dir0 = [exists |-> TRUE, children |-> EmptyFn]
    /\ out_dir = out_dir0
    /\ clobber = FALSE
    /\ arg \in {[kind |-> "info", resolution_xyz |-> r,
                 volume_size_xyz |-> <<nx, ny, nz>>] :
                r \in [1..3 -> ResolutionValues],
                nx \in 1..MaxVol, ny \in 1..MaxVol, nz \in 1..2}
    /\ ret = [kind |-> "none"]
    /\ mainpc = "info"

\* make_info_file(resolution_xyz, volume_size_xyz, ...): info["scales"]
InfoCall ==
    /\ mainpc = "info"
    /\ ret' = [kind |-> "info",
               scales |-> make_info_file(arg.resolution_xyz,
                                         arg.volume_size_xyz)]
    /\ mainpc' = "done"
    /\ UNCHANGED <<cluster_name_list, cluster_geom, image_config_list,
                   n_processors, clobber, class_lookup, out_dir0, arg,
                   out_dir, poolpc, poolvars, procs, calls>>

NextInfo == InfoCall

SpecInfo == InitInfo /\ [][NextInfo]_vars

\* ------------------------------------------- files, groups and channels
\* channel names, as their characters
ChannelNames == {<<"r", "e", "d">>, <<"u", "v">>}
\* a Python value that can be indexed: a list of strings, or a string
PyList(v) == [str |-> FALSE, v |-> v]
PyStr(v) == [str |-> TRUE, v |-> v]
\* channel_list = None
NoChannels == [given |-> FALSE, list |-> PyList(<<>>)]

\* x[idx] (idx counted from 0): an element of the list, a character of the
\* string
PyIndex(x, idx) ==
    IF idx + 1 > Len(x.v) THEN [error |-> "IndexError", value |-> PyStr(<<>>)]
    ELSE [error |-> "none",
          value |-> IF x.str THEN PyStr(<<x.v[idx + 1]>>) ELSE PyStr(x.v[idx + 1])]

\* _write_nii_file_list_worker l.233-251 from index idx on: the calls of
\* write_nii_to_group it makes.  l.237 is
\*     channel = channel_list = channel_list[idx]
\* which binds channel_list, too, to the channel just read
RECURSIVE WorkerLoop(_, _, _, _, _)
WorkerLoop(file_path_list, group_name_list, channel_list, idx, done) ==
    IF idx >= Len(file_path_list) THEN [error |-> "none", calls |-> done]
    ELSE IF ~channel_list.given
    THEN WorkerLoop(file_path_list, group_name_list, channel_list, idx + 1,
                    Append(done, [nii_file_path |-> file_path_list[idx + 1],
                                  group_name |-> group_name_list[idx + 1],
                                  channel |-> "None"]))
    ELSE LET c == PyIndex(channel_list.list, idx)
         IN  IF c.error # "none" THEN [error |-> c.error, calls |-> done]
             ELSE WorkerLoop(file_path_list, group_name_list,
                             [given |-> TRUE, list |-> c.value], idx + 1,
                             Append(done,
                                    [nii_file_path |-> file_path_list[idx + 1],
                                     group_name |-> group_name_list[idx + 1],
                                     channel |-> c.value.v]))

_write_nii_file_list_worker(file_path_list, group_name_list, channel_list) ==
    WorkerLoop(file_path_list, group_name_list, channel_list, 0, <<>>)

\* write_nii_file_list_to_ome_zarr l.139-189: the worker calls it makes, one
\* in the parent for a single file, else one per bucket of the round robin
WorkerCalls(a) ==
    LET n == Len(a.file_path_list)
        W == Min(Max(1, a.n_processors - 1), n)
        sub(list, jj) == [k \in DOMAIN RoundRobin(n, W)[jj] |->
                             list[RoundRobin(n, W)[jj][k]]]
    IN  IF n = 1
        THEN <<_write_nii_file_list_worker(a.file_path_list, a.group_name_list,
                                           a.channel_list)>>
        ELSE [jj \in 1..W |->
                 _write_nii_file_list_worker(
                     sub(a.file_path_list, jj), sub(a.group_name_list, jj),
                     IF a.channel_list.given
                     THEN [given |-> TRUE,
                           list |-> PyList(sub(a.channel_list.list.v, jj))]
                     ELSE NoChannels)]

InitPairing ==
    /\ PoolIdle
    /\ out_dir0 = [exists |-> TRUE, children |-> EmptyFn]
    /\ out_dir = out_dir0
    /\ clobber = FALSE
    /\ \E n \in 0..MaxFiles :
          arg \in {[kind |-> "pairing", file_path_list |-> [i \in 1..n |-> i],
                    group_name_list |-> g, channel_list |-> c,
                    n_processors |-> np] :
                   g \in [1..n -> ClusterNames],
                   c \in {NoChannels} \cup
                         {[given |-> TRUE, list |-> PyList(l)] :
                             l \in [1..n -> ChannelNames]},
                   np \in 1..MaxProc}
    /\ ret = [kind |-> "none"]
    /\ mainpc = "pairing"

\* write_nii_file_list_to_ome_zarr(file_path_list, group_name_list, ...,
\* channel_list): what each worker hands to write_nii_to_group
PairingCall ==
    /\ mainpc = "pairing"
    /\ ret' = [kind |-> "pairing", workers |-> WorkerCalls(arg)]
    /\ mainpc' = "done"
    /\ UNCHANGED <<cluster_name_list, cluster_geom, image_config_list,
                   n_processors, clobber, class_lookup, out_dir0, arg,
                   out_dir, poolpc, poolvars, procs, calls>>

NextPairing == PairingCall

SpecPairing == InitPairing /\ [][NextPairing]_vars

\* ------------------------------------------- one key of the summed worker
KeyClusters == {"A", "B", "C"}
\* obj_to_clusters[key]: the clusters the annotation lists under a target,
\* each once
ClusterLists ==
    {l \in UNION {[1..n -> KeyClusters] : n \in 1..Cardinality(KeyClusters)} :
        \A i, j \in DOMAIN l : l[i] = l[j] => i = j}
\* cluster_to_path: the clusters that have a file, each with what its file
\* holds
ClusterFiles == UNION {[S -> SourceFiles] : S \in SUBSET KeyClusters}

\* _write_summed_object_worker l.72-83, one pass of the loop: the files of
\* the listed clusters that have one (l.73-75); with at least one, the group
\* is created (l.79) and the sum written into it (l.80-83)
_write_summed_object_worker(cluster_list, c2p) ==
    LET av == SelectSeq(cluster_list, LAMBDA c : c \in DOMAIN c2p)
        file_path_list == [k \in DOMAIN av |-> c2p[av[k]]]
        summed == write_summed_nii_files_to_group(file_path_list)
    IN  IF Len(file_path_list) > 0
        THEN [created |-> TRUE, error |-> summed.error, arr |-> summed.arr]
        ELSE [created |-> FALSE, error |-> "none", arr |-> NoArray]

InitKey ==
    /\ PoolIdle
    /\ out_dir0 = [exists |-> TRUE, children |-> EmptyFn]
    /\ out_dir = out_dir0
    /\ clobber = FALSE
    /\ arg \in {[kind |-> "key", cluster_list |-> l, cluster_to_path |-> f] :
                l \in ClusterLists, f \in ClusterFiles}
    /\ ret = [kind |-> "none"]
    /\ mainpc = "key"

\* _write_summed_object_worker(parent_group, [key], obj_to_clusters,
\* cluster_to_path, downscale): the group of the key, empty when the sum
\* raised, and what the worker ended with
KeyCall ==
    /\ mainpc = "key"
    /\ LET r == _write_summed_object_worker(arg.cluster_list,
                                            arg.cluster_to_path)
       IN  /\ ret' = [kind |-> "key", created |-> r.created,
                      error |-> r.error, arr |-> r.arr]
           /\ out_dir' =
                  IF ~r.created THEN out_dir
                  ELSE [out_dir EXCEPT !.children =
                           Put(@, "key", IF r.error = "none"
                                         THEN ArrayNode(r.arr)
                                         ELSE EmptyNode)]
    /\ mainpc' = "done"
    /\ UNCHANGED <<cluster_name_list, cluster_geom, image_config_list,
                   n_processors, clobber, class_lookup, out_dir0, arg,
                   poolpc, poolvars, procs, calls>>

NextKey == KeyCall

SpecKey == InitKey /\ [][NextKey]_vars

\* ================================================================= claims
ProcsOf(ph) == {w \in DOMAIN procs : procs[w].phase = ph}
\* the files agree in shape and in voxel spacing
Compatible(files) ==
    \A k \in DOMAIN files : FileRec(files[k]).geom = FileRec(files[1]).geom
\* main() has got past the pool call of phase ph
Returned(ph) ==
    mainpc \in (CASE ph = "clusters" -> {"subclasses", "classes", "done"}
                  [] ph = "subclasses" -> {"classes", "done"}
                  [] OTHER -> {"done"})
\* the pool call of phase ph has its buckets and has not returned
Running(ph) == mainpc = ph /\ poolpc \in {"start", "winnow", "join"}
NoCrash(ph) == \A w \in ProcsOf(ph) : procs[w].status # "crashed"
\* how many (bucket, position) pairs of the running call hold item i
BucketCount(ph, i) ==
    Cardinality({bk \in (DOMAIN buckets) \X (1..Len(items[ph])) :
                    /\ bk[2] \in DOMAIN buckets[bk[1]]
                    /\ buckets[bk[1]][bk[2]] = i})
\* how many (process, position) pairs of phase ph hold item i
AssignedCount(ph, i) ==
    Cardinality({wk \in ProcsOf(ph) \X (1..Len(items[ph])) :
                    /\ wk[2] \in DOMAIN procs[wk[1]].bucket
                    /\ procs[wk[1]].bucket[wk[2]] = i})

\* C1: under the static round robin (write_nii_file_list_to_ome_zarr,
\* process_image) and the dynamic chunks (write_summed_object) every item
\* of the list is in exactly one bucket, is handed to at most one process,
\* and is begun at most once; once the call has returned every item was
\* handed to exactly one process, and was begun exactly once when no
\* worker of the call raised.
C1_EveryItemExactlyOnce ==
    \A ph \in AllPhases : \A i \in DOMAIN items[ph] :
        /\ AssignedCount(ph, i) <= 1
        /\ calls[ph][i] <= 1
        /\ Running(ph) => BucketCount(ph, i) = 1
        /\ Returned(ph) => AssignedCount(ph, i) = 1
        /\ Returned(ph) /\ NoCrash(ph) => calls[ph][i] = 1

\* C1 witness: main() is done, three cluster files went to two or more
\* processes, two or more classes were summed, and no worker raised.
C1_Witness ==
    /\ mainpc = "done"
    /\ Len(items["clusters"]) = 3
    /\ Cardinality(ProcsOf("clusters")) >= 2
    /\ Len(items["classes"]) >= 2
    /\ \A ph \in AllPhases : NoCrash(ph)
    /\ \A ph \in AllPhases : \A i \in DOMAIN items[ph] : calls[ph][i] = 1

\* C2: when a pool call has returned, every process it started has
\* terminated; and while a process of a later phase of main() exists, every
\* process of an earlier phase has terminated.
C2_ReturnsAfterWorkersExit ==
    /\ \A ph \in AllPhases :
          Returned(ph) => \A w \in ProcsOf(ph) : Terminated(w)
    /\ \A w, v \in DOMAIN procs :
          /\ procs[w].phase \in Range(Phases)
          /\ procs[v].phase \in Range(Phases)
          /\ PhaseIdx(procs[w].phase) < PhaseIdx(procs[v].phase)
          => Terminated(w)

\* C2 witness: a worker of the classes phase is running, after two or more
\* workers of the clusters phase and of the subclasses phase.
C2_Witness ==
    /\ \E v \in ProcsOf("classes") : ~Terminated(v)
    /\ Cardinality(ProcsOf("clusters")) >= 2
    /\ Cardinality(ProcsOf("subclasses")) >= 2

\* the names of the items of worker w's bucket
NamesOf(w) == {items[procs[w].phase][procs[w].bucket[k]] :
                  k \in DOMAIN procs[w].bucket}

\* C3 (as claimed): no two running workers of a pool call are assigned
\* work units with the same target name under the same parent group.
C3_DisjointTargets ==
    \A w, v \in DOMAIN procs :
        /\ w # v
        /\ procs[w].phase = procs[v].phase
        /\ procs[w].phase \in Range(Phases)
        /\ ~Terminated(w) /\ ~Terminated(v)
        => NamesOf(w) \cap NamesOf(v) = {}

\* worker w has got past create_group for the item at position k of its bucket
Created(w, k) ==
    /\ k \in DOMAIN procs[w].bucket
    /\ \/ procs[w].pc = "end"
       \/ procs[w].pos > k
       \/ procs[w].pos = k /\ procs[w].pc \in {"wcheck", "write"}

\* C4 (as claimed): of two work units with the same target name under the
\* same parent group at most one gets its child group created; every
\* further create fails, whichever processes run them and however their
\* steps interleave.
C4_SecondCreateFails ==
    \A w, v \in DOMAIN procs :
        \A k \in DOMAIN procs[w].bucket, l \in DOMAIN procs[v].bucket :
            /\ <<w, k>> # <<v, l>>
            /\ procs[w].phase = procs[v].phase
            /\ procs[w].phase \in Range(Phases)
            /\ items[procs[w].phase][procs[w].bucket[k]]
                   = items[procs[v].phase][procs[v].bucket[l]]
            => ~(Created(w, k) /\ Created(v, l))

\* C6: a worker process that raised never makes the pool call raise: main()
\* is not in "raised", and once every process of the call's list has
\* terminated the joins and the return are not held up.
C6_CrashNotSurfaced ==
    /\ (\E w \in DOMAIN procs : procs[w].status = "crashed" /\ ~procs[w].inproc)
          => mainpc # "raised"
    /\ \A ph \in AllPhases :
          /\ mainpc = ph /\ poolpc = "join"
          /\ \A k \in DOMAIN process_list : Terminated(process_list[k])
          => \/ next_i <= Len(process_list) /\ ENABLED JoinNext
             \/ JoinsDone /\ ENABLED (NiiReturn \/ SummedReturn \/ ImageReturn)

\* C6 witness: the clusters call and the subclasses call have both returned
\* although a worker of each raised.
C6_Witness ==
    /\ Returned("subclasses")
    /\ \E w \in ProcsOf("clusters") : procs[w].status = "crashed"
    /\ \E w \in ProcsOf("subclasses") : procs[w].status = "crashed"

\* the node of target t of phase ph holds a written array
Written(ph, t) ==
    /\ ph \in DOMAIN out_dir.children
    /\ t \in DOMAIN Children(ph)
    /\ Children(ph)[t].written

\* C7 (as claimed): after write_summed_object every target whose sources
\* agree in shape and spacing is summed and written, also when the sources
\* of another target of the call disagree.
C7_SiblingsContinue ==
    \A ph \in {"subclasses", "classes"} :
        Returned(ph) =>
            \A i \in DOMAIN items[ph] :
                Compatible(FilePathList(ObjToClusters(ph), items[ph][i]))
                    => Written(ph, items[ph][i])

\* worker w raised before it came to the item at position k of its bucket
CrashedBefore(w, k) == procs[w].status = "crashed" /\ procs[w].pos < k

C5_ExistingRootKeptUnlessClobber ==
    ret.kind = "root" =>
        /\ out_dir0.exists /\ ~clobber => ret.raised /\ out_dir = out_dir0
        /\ out_dir0.exists /\ clobber =>
               /\ ~ret.raised
               /\ out_dir = [exists |-> TRUE, children |-> EmptyFn]
        /\ out_dir0.exists /\ out_dir # out_dir0 => clobber

\* the call has raised on a directory that holds arrays
C5_Witness ==
    /\ ret.kind = "root" /\ ret.raised
    /\ ~clobber
    /\ \E S \in DOMAIN out_dir0.children :
           \E t \in DOMAIN out_dir0.children[S] :
               out_dir0.children[S][t].written

\* the sum of the sources' voxels, as integers
RECURSIVE ExactSum(_, _)
ExactSum(files, i) ==
    IF files = <<>> THEN 0
    ELSE files[1].data[i] + ExactSum(Tail(files), i)
SameGeoms(files) == \A k \in DOMAIN files : files[k].geom = files[1].geom

\* C9: for k >= 1 sources of one shape and spacing the array written is the
\* exact elementwise sum of the k source arrays
C9_ExactSum ==
    ret.kind = "sum" /\ SameGeoms(arg.files) =>
        /\ ret.error = "none"
        /\ \A i \in DOMAIN ret.arr.data :
               ret.arr.data[i] = ExactSum(arg.files, i)

\* C10 as stated: in every dimension 1 <= chunk[d] <= min(shape[d] // 4, cap)
C10_ChunkWithinQuarterAndCap ==
    ret.kind = "chunks" =>
        \A d \in 1..3 :
            /\ 1 <= ret.chunks[d]
            /\ ret.chunks[d] <= Min(arg.shape[d] \div 4, arg.default_chunk)

\* C10 amended: in every dimension 1 <= chunk[d] <= cap and
\* chunk[d] <= max(1, shape[d] // 4); so chunk[d] <= min(shape[d] // 4, cap)
\* wherever shape[d] >= 4, and chunk[d] = 1 wherever shape[d] < 4
C10_ChunkBounds ==
    ret.kind = "chunks" =>
        \A d \in 1..3 :
            /\ 1 <= ret.chunks[d]
            /\ ret.chunks[d] <= arg.default_chunk
            /\ ret.chunks[d] <= Max(1, arg.shape[d] \div 4)
            /\ arg.shape[d] >= 4 =>
                   ret.chunks[d] <= Min(arg.shape[d] \div 4, arg.default_chunk)
            /\ arg.shape[d] < 4 => ret.chunks[d] = 1

\* a plan with a dimension shorter than 4, one cut by the cap and one cut
\* by the quarter
C10_Witness ==
    /\ ret.kind = "chunks"
    /\ arg.shape[1] < 4
    /\ arg.shape[2] \div 4 > arg.default_chunk
    /\ arg.shape[3] >= 4 /\ arg.shape[3] \div 4 < arg.default_chunk

\* C11: the transform of level 0 is exactly (x_scale, y_scale, z_scale);
\* there is one transform for level 0 and one per planned further level;
\* the scale of further level i in dimension d is
\* scale[d] * shape[d] / s_i[d], s_i the shape planned for that level
C11_TransformPerLevel ==
    ret.kind = "array" /\ ret.error = "none" =>
        LET ct == ret.coord_transform
            plan == IF arg.downscale > 1 THEN arg.list_of_nx_ny ELSE <<>>
        IN  /\ Len(ct) = 1 + Len(plan)
            /\ \A d \in 1..3 : ct[1][d] = Quot(arg.scales[d], 1)
            /\ \A i \in DOMAIN plan : \A d \in 1..3 :
                   /\ ct[i + 1][d].den # 0
                   /\ ct[i + 1][d].num * plan[i][d]
                          = arg.scales[d] * arg.shape[d] * ct[i + 1][d].den

\* an array of 3 dimensions was written with two further levels, one of
\* them of another shape than the array
C11_Witness ==
    /\ ret.kind = "array" /\ ret.error = "none"
    /\ arg.downscale > 1
    /\ Len(ret.coord_transform) = 3
    /\ arg.list_of_nx_ny[1] # arg.shape
    /\ \A d \in 1..3 : arg.scales[d] > 0

\* C12: an array of fewer than 3 dimensions, or a spacing that is not
\* positive, ends in an error and no node is created in the store
C12_InvalidRejectedBeforeWrite ==
    /\ ret.kind = "array"
    /\ \/ Len(arg.shape) < 3
       \/ \E d \in 1..3 : arg.scales[d] <= 0
    => ret.error # "none" /\ out_dir = out_dir0

\* C13: after write_sub_group has written the groups of a prefix the
\* source manifest is at <root>/<prefix>/manifest.csv, unchanged; where a
\* manifest was already there the call raises and leaves that file as it was
C13_ManifestCopied ==
    ret.kind = "sub_group" /\ arg.is_dir /\ arg.manifest # "absent" =>
        LET mp == ManifestPath(arg.prefix)
        IN  IF mp \in DOMAIN out_dir0.children
            THEN /\ ret.error # "none"
                 /\ mp \in DOMAIN out_dir.children
                 /\ out_dir.children[mp] = out_dir0.children[mp]
            ELSE arg.prefix \in DOMAIN out_dir.children
                 /\ arg.prefix \notin DOMAIN out_dir0.children
                    => /\ ret.error = "none"
                       /\ mp \in DOMAIN out_dir.children
                       /\ out_dir.children[mp] = ManifestFile(arg.manifest)

\* C14: under the static round robin item i is in bucket i mod W; once the
\* launcher joins, one process was started per bucket that holds an item
\* and none for a bucket that holds none; and all of them were started
\* before the first join
C14_OneProcessPerNonEmptyBucket ==
    \A ph \in {"clusters", "images"} :
        /\ Running(ph) =>
               \A jj \in DOMAIN buckets : \A k \in DOMAIN buckets[jj] :
                   (buckets[jj][k] - 1) % n_workers = jj - 1
        /\ mainpc = ph /\ poolpc = "join" =>
               /\ Len(process_list) = n_workers
               /\ Len(process_list)
                      = Cardinality({jj \in DOMAIN buckets : buckets[jj] # <<>>})
               /\ \A k \in DOMAIN process_list :
                      procs[process_list[k]].bucket # <<>>

\* the processes of phase ph that have been started and have not terminated
Alive(ph) == {w \in ProcsOf(ph) : ~Terminated(w)}

\* C15: write_summed_object cuts the valid targets into contiguous chunks
\* of ceil(n / maxWorkers) targets, the last one possibly shorter, and
\* starts one process per chunk: never more than maxWorkers processes
C15_CeilChunks ==
    \A ph \in {"subclasses", "classes"} :
        /\ Running(ph) =>
               LET n == Len(items[ph])
                   size == (n + n_workers - 1) \div n_workers
               IN  /\ \A k \in DOMAIN buckets :
                          /\ k < Len(buckets) => Len(buckets[k]) = size
                          /\ Len(buckets[k]) <= size
                          /\ \A j \in DOMAIN buckets[k] :
                                 buckets[k][j] = (k - 1) * size + j
                   /\ Len(buckets) <= n_workers
        /\ mainpc = ph => Cardinality(ProcsOf(ph)) <= n_workers

\* C16: write_summed_object starts a process only while fewer than
\* maxWorkers of the processes it started are still running, so at most
\* maxWorkers of its processes are alive at any time
C16_AtMostMaxWorkersAlive ==
    \A ph \in {"subclasses", "classes"} :
        mainpc = ph /\ poolpc # "idle" =>
            /\ Cardinality(Alive(ph)) <= n_workers
            /\ poolpc = "start" => Cardinality(Alive(ph)) < n_workers
            /\ \A w \in Alive(ph) : w \in Range(process_list)

\* the launcher is held back: maxWorkers (two or more) processes are alive
\* and a chunk is still to be started
C16_Witness ==
    \E ph \in {"subclasses", "classes"} :
        /\ mainpc = ph /\ poolpc = "winnow"
        /\ n_workers >= 2
        /\ Cardinality(Alive(ph)) = n_workers
        /\ next_i < Len(buckets)

\* the chunk files of scale sc that fall to image worker w
ChunksOfWorker(w, sc) ==
    UNION {ChunkNames(info_data[sc].size, info_data[sc].chunk_sizes,
                      procs[w].bucket[k] - 1) : k \in DOMAIN procs[w].bucket}

\* C17: in process_image the chunk files of different workers are distinct
\* paths, no worker fails on the directory of a scale, and once the call
\* has returned every chunk file of every image is in its directory
C17_WorkersDoNotCollide ==
    /\ \A w, v \in ProcsOf("images") : \A sc \in DOMAIN info_data :
           w # v => ChunksOfWorker(w, sc) \cap ChunksOfWorker(v, sc) = {}
    /\ \A w \in ProcsOf("images") : procs[w].status # "crashed"
    /\ mainpc = "done" =>
           \A w \in ProcsOf("images") : \A sc \in DOMAIN info_data :
               /\ info_data[sc].key \in DOMAIN out_dir.children
               /\ ChunksOfWorker(w, sc) \subseteq out_dir.children[info_data[sc].key]

\* C18: the chunk files of a slice tile it: every pixel is in exactly one
\* chunk; every chunk has x0 < x1 <= width, y0 < y1 <= height, is at most
\* the chunk size wide and high and is of slice z..z+1; different chunks
\* have different file names
C18_ChunksTileSlice ==
    ret.kind = "tile" =>
        LET width == arg.downscale_shape[1]
            height == arg.downscale_shape[2]
        IN  /\ \A x \in 0..(width - 1) : \A y \in 0..(height - 1) :
                   Cardinality({c \in ret.chunks :
                                   /\ c[1] <= x /\ x < c[2]
                                   /\ c[3] <= y /\ y < c[4]}) = 1
            /\ \A c \in ret.chunks :
                   /\ 0 <= c[1] /\ c[1] < c[2] /\ c[2] <= width
                   /\ 0 <= c[3] /\ c[3] < c[4] /\ c[4] <= height
                   /\ c[2] - c[1] <= arg.chunk_size[1]
                   /\ c[4] - c[3] <= arg.chunk_size[2]
                   /\ c[5] = arg.zz_idx /\ c[6] = arg.zz_idx + 1
            /\ \A c, e \in ret.chunks :
                   c # e => FileName(c) # FileName(e)

\* a slice cut into several chunks along x and along y, the last ones
\* shorter than the chunk size, with file names of more than one digit
C18_Witness ==
    /\ ret.kind = "tile"
    /\ arg.downscale_shape[1] % arg.chunk_size[1] # 0
    /\ arg.downscale_shape[2] % arg.chunk_size[2] # 0
    /\ Cardinality(ret.chunks) >= 6
    /\ arg.zz_idx >= 9

\* C19: every scale of make_info_file has size * resolution equal to
\* volume size * base resolution in x and in y, the z size and z resolution
\* of the base, and the key made of its resolution joined by "_"; the list
\* starts with the base scale and is never empty
C19_ScalesConsistent ==
    ret.kind = "info" =>
        /\ Len(ret.scales) >= 1
        /\ ret.scales[1].resolution = arg.resolution_xyz
        /\ ret.scales[1].size = arg.volume_size_xyz
        /\ \A k \in DOMAIN ret.scales :
               LET e == ret.scales[k]
               IN  /\ \A d \in 1..2 :
                          e.size[d] * e.resolution[d]
                              = arg.volume_size_xyz[d] * arg.resolution_xyz[d]
                   /\ e.size[3] = arg.volume_size_xyz[3]
                   /\ e.resolution[3] = arg.resolution_xyz[3]
                   /\ e.key = Digits(e.resolution[1]) \o <<Underscore>> \o
                               Digits(e.resolution[2]) \o <<Underscore>> \o
                               Digits(e.resolution[3])

\* a volume with all four scales, and one with the base scale only
C19_Witness ==
    /\ ret.kind = "info"
    /\ Len(ret.scales) = 4
    /\ arg.volume_size_xyz[1] # arg.volume_size_xyz[2]
    /\ arg.resolution_xyz[1] # arg.resolution_xyz[2]

\* C20: for every index i, file_path_list[i] is written under
\* group_name_list[i] and read with channel_list[i] (with no channel when
\* none is given), by exactly one call of write_nii_to_group, and no worker
\* fails on its lists
C20_PairingKept ==
    ret.kind = "pairing" =>
        /\ \A w \in DOMAIN ret.workers : ret.workers[w].error = "none"
        /\ \A i \in DOMAIN arg.file_path_list :
               Cardinality({wk \in (DOMAIN ret.workers) \X (1..MaxFiles + 1) :
                   /\ wk[2] \in DOMAIN ret.workers[wk[1]].calls
                   /\ ret.workers[wk[1]].calls[wk[2]] =
                         [nii_file_path |-> arg.file_path_list[i],
                          group_name |-> arg.group_name_list[i],
                          channel |-> IF arg.channel_list.given
                                      THEN arg.channel_list.list.v[i]
                                      ELSE "None"]}) = 1

\* C21: a failure stays with its item: once a pool call has returned, every
\* item other than the one a worker raised on was processed, those of the
\* other workers and those after it in the same bucket alike
C21_FailureContained ==
    \A ph \in AllPhases :
        Returned(ph) =>
            \A w \in ProcsOf(ph) : \A k \in DOMAIN procs[w].bucket :
                ~(procs[w].status = "crashed" /\ procs[w].pos = k)
                    => calls[ph][procs[w].bucket[k]] >= 1

\* C22: after a run every child group under a prefix holds a written array;
\* an item that failed has left no empty group node of its name in the store
C22_NoEmptyGroupLeft ==
    mainpc = "done" /\ image_config_list = <<>> =>
        \A ph \in {"clusters", "subclasses", "classes"} :
            ph \in DOMAIN out_dir.children =>
                \A t \in DOMAIN Children(ph) : Children(ph)[t].written

PresentFiles ==
    LET av == SelectSeq(arg.cluster_list,
                        LAMBDA c : c \in DOMAIN arg.cluster_to_path)
    IN  [k \in DOMAIN av |-> arg.cluster_to_path[av[k]]]
PartlyPresent ==
    /\ PresentFiles # <<>>
    /\ Len(PresentFiles) < Len(arg.cluster_list)

\* C23: a target that lists clusters with a file next to clusters without
\* one is written, and its array is the elementwise sum over exactly the
\* listed clusters that have a file
C23_PartialTargetSummed ==
    ret.kind = "key" /\ PartlyPresent /\ SameGeoms(PresentFiles) =>
        /\ ret.created /\ ret.error = "none"
        /\ out_dir.children["key"].written
        /\ \A i \in DOMAIN ret.arr.data :
               ret.arr.data[i] = ExactSum(PresentFiles, i)

====
